---------------------------- MODULE Spec2Model ----------------------------
(***************************************************************************)
(* minecraft-preempt: the proxy's connection-handling pipeline             *)
(* (cmd/minecraft-preempt/proxy.go: Proxy, Connection) and the per-backend *)
(* lifecycle controller (cmd/minecraft-preempt/server.go: Server), over a  *)
(* cloud provider that follows internal/cloud/gcp/client.go.               *)
(*                                                                         *)
(* Every provider RPC and every read of Server.connections is a step of    *)
(* its own, so that the interleavings of the connection goroutines with    *)
(* the watcher goroutine are explored.  Adjacent atomic operations of one  *)
(* goroutine (the OnLogin hook's Store and Add, the watcher's Load, Store  *)
(* and test) are one step: no step of another goroutine between them       *)
(* leads to a state that is not reached without it.                        *)
(***************************************************************************)
EXTENDS Integers, Sequences, FiniteSets

\* ------------------------------------------------------------------ bounds
MaxConns == 2      \* client connections accepted during a run
MaxAge   == 2      \* elapsed times are told apart up to MaxAge clock units
MaxPackets == 3    \* packets a client sends in one status exchange
UintBits == 3      \* width of the connections counter (a uint64 in the code)
MaxServers == 2    \* servers listed by a configuration
MaxPolls == 3      \* successful polls of the status-polling loop that are counted
MaxHandlers == 3   \* handlers registered with an eventbus instance

\* ----------------------------------------------------------- configuration
\* config.ServerConfig.Hostname of the configured servers (the routing keys)
Backends == {"mc.a"}
\* a ServerAddress no server is configured for
UnknownHost == "mc.x"
\* the values config.ServerConfig.Whitelist takes: none, or one admitted player
Whitelists == {{}, {"alice"}}
\* player names a LoginStart may carry
Players == {"alice", "mallory"}
\* config.ServerConfig.ShutdownAfter, in clock units
ShutdownAfter == 1

\* cloud.ProviderStatus
StatusRunning  == "RUNNING"
StatusStopped  == "STOPPED"
StatusStopping == "STOPPING"
StatusStarting == "STARTING"
StatusUnknown  == "UNKNOWN"
ProviderStatus ==
    {StatusRunning, StatusStopped, StatusStopping, StatusStarting, StatusUnknown}

\* minecraft.ClientState
ClientStateCheck       == 1
ClientStatePlayerLogin == 2

\* An instant (a time.Time) is kept as the time elapsed since it, which is
\* what the code computes from it (time.Since): 0 for time.Now(), one more
\* with every clock unit that passes, no longer told apart beyond MaxAge.
\* NoTime is a nil *time.Time.
NoTime   == -1
NoStatus == "none"
NoServer == "none"
NoPlayer == ""

Conns == 1..MaxConns
UintModulus == 2^UintBits

\* the messages SendDisconnect is called with, and the status reply
MsgUnknownServer  == "Unknown server"
MsgNotWhitelisted == "You are not whitelisted on this server"
MsgBeingStarted   == "Server is being started, please try again later"
MsgStatus         == "status response"

\* minecraft.StatusVersion: <<Name, Protocol>>; NoVersion is a nil pointer
NoVersion      == <<>>
UnknownVersion == <<"unknown", 754>>
\* the versions a backend's Minecraft server reports in a live ping
LiveVersions   == {<<"1.20.1", 763>>}
\* a nil *minecraft.Status
NoMcStatus ==
    [version |-> NoVersion, players |-> [max |-> 0, online |-> 0], text |-> <<>>]

VARIABLES
    whitelist,            \* config.ServerConfig.Whitelist of each backend
    cloud,                \* the provider's state of each backend's instance
    connections,          \* Server.connections (atomic.Uint64)
    emptySince,           \* Server.emptySince (atomic.Pointer[time.Time])
    lastMinecraftStatus,  \* Server.lastMinecraftStatus: the Version of the cached
                          \* status, NoVersion while none is cached
    conn,                 \* the connection goroutines and their locals
    w,                    \* the watcher goroutine and its locals
    proxy,                \* Proxy.Listener, the lifecycle context, and where
                          \* Proxy.Start, its accept goroutine and Proxy.Stop are
    lastZero,             \* history: since when connections has been 0
                          \* (NoTime while it is not 0)
    lastStop,             \* history: the last cloud.Stop call of the current
                          \* period of RUNNING with connections = 0
    poll,                 \* the single-server program (main.go): its instance,
                          \* cachedStatus and status-polling goroutine
    bus,                  \* an eventbus.Instance and what its last Emit did
    cfg,                  \* the inputs of config.LoadProxyConfig and its result
    exch,                 \* one status exchange of minecraft.Client.SendStatus:
                          \* the client's packets, the loop and what was written
    prov,                 \* a provider client (gcp or docker) and the instance behind it
    routing,              \* a configuration, its validation and the routing map NewProxy builds
    single,               \* the proxy of one server (an earlier Proxy): its counter and connections
    agent                 \* the agent's preemption watcher: its --cloud flag, provider and goroutine

vars == <<whitelist, cloud, connections, emptySince, lastMinecraftStatus,
          conn, w, proxy, lastZero, lastStop, poll, bus, cfg, exch, prov, routing, single, agent>>

\* the state of the components next to the multi-server proxy
aux == <<poll, bus, cfg, exch, prov, routing, single, agent>>
\* the components that are no concern of the single-server program, the
\* eventbus or the configuration loader
ext == <<exch, prov, routing, single, agent>>
\* the state of the multi-server proxy
proxyVars == <<whitelist, cloud, connections, emptySince, lastMinecraftStatus,
               conn, w, proxy, lastZero, lastStop>>

shared == <<cloud, connections, emptySince, lastMinecraftStatus>>
hist   == <<lastZero, lastStop>>

NewConn ==
    [pc |-> "new", srv |-> NoServer, nextState |-> 0, player |-> NoPlayer,
     madeItToLogin |-> FALSE, status |-> NoStatus, sent |-> <<>>,
     dialed |-> FALSE, replay |-> <<>>, closes |-> 0, starts |-> 0,
     startStatus |-> NoStatus, startErr |-> NoStatus, counted |-> FALSE,
     ping |-> "none", mcStatus |-> NoMcStatus]

IdleWatcher ==
    [pc |-> "sleep", todo |-> {}, cur |-> NoServer, ptr |-> NoTime,
     status |-> NoStatus, stopStatus |-> NoStatus, stops |-> 0]

\* a Proxy as NewProxy returns it, before Start: no Listener yet.
\*   listener  p.Listener: "nil", "open", or "closed" by Proxy.Stop
\*   ctx       the lifecycle context is cancelled
\*   start     Proxy.Start: "new", "running" (in its select loop or in
\*             handleConnection), "err" (it returned an error), "panic"
\*   zero      the accept goroutine is sending a zero mcnet.Conn on connChan
\*   accErr    the accept goroutine is sending ctx.Err() on errChan
\*   stop      Proxy.Stop: "none", "drain" (in its wait loop), "nil" or "err"
\*             (what it returned)
\*   deadline  the 15 s context of Proxy.Stop's caller has expired
\*   exited    the process has exited
NewProxy ==
    [listener |-> "nil", ctx |-> FALSE, start |-> "new", zero |-> FALSE,
     accErr |-> FALSE, stop |-> "none", deadline |-> FALSE, exited |-> FALSE]

\* the single-server program at the start of main: cachedStatus is
\* cloud.StatusUnknown and the polling goroutine is about to poll
\*   pc        of the goroutine: "poll", "sleep", or "exited"
\*   polls     how many polls succeeded (counted up to MaxPolls)
\*   failed    how many polls failed
NewPoller(st) ==
    [pc |-> "poll", cachedStatus |-> StatusUnknown, instance |-> st,
     polls |-> 0, failed |-> 0]

\* eventbus: EventKey values, and the nil of an error or of a data result
Keys   == {"helloWorld", "custom"}
NoErr  == "nil"
NoData == "nil"

\* eventbus.New(): no handlers.  `last` is what the last Emit did: its key,
\* the indices of the handlers it called, in the order of the calls, and what
\* it returned; n flips with every Emit.
NewBus ==
    [handlers |-> [k \in Keys |-> <<>>],
     last |-> [key |-> "", invoked |-> <<>>, results |-> <<>>, err |-> NoErr],
     n |-> 0]

\* the text of an empty environment variable or an empty file
Empty == <<>>

\* LoadProxyConfig has not been called: the environment and the file at the
\* --config path (NoFile: there is none), and no result
NewLoad(b64, config, file) ==
    [CONFIG_BASE64 |-> b64, CONFIG |-> config, file |-> file,
     conf |-> [servers |-> <<>>], err |-> "none"]
NoFile == <<"ENOENT">>

\* a status exchange: the packets the client still sends, the iteration of
\* SendStatus's loop, the packets written, and where the exchange is
NewExchange(in, pc) == [in |-> in, i |-> 0, reads |-> 0, out |-> <<>>, pc |-> pc]

\* the components next to the proxy that are not under study stay idle
\* a provider client of the given kind and the raw state of its instance;
\* what its last Status and its last Start returned, "none" before the call
NewProvider(kind, raw) ==
    [kind |-> kind, raw |-> raw, status |-> "none", start |-> "none"]

\* a list of configured servers on its way into a Proxy: not yet validated
NewRouting(servers) ==
    [conf |-> [servers |-> servers], pc |-> "loaded", servers |-> <<>>]

\* the proxy of one server after NewProxy: Proxy.connections, whether
\* Proxy.emptySince is set, what the watcher did at its last look, and of
\* each connection where its goroutine is and whether OnLogin has counted it
NewSingle ==
    [connections |-> 0, emptySince |-> FALSE, watcher |-> "none",
     conn |-> [c \in Conns |-> [pc |-> "idle", counted |-> FALSE]]]

\* the agent before its watcher is started: the --cloud flag, the provider
\* `c` (nil until a client is made), where the watcher is, whether the
\* agent's context is cancelled and by whom, the ticks so far, what the
\* last ShouldTerminate returned, and whether the instance is being
\* preempted (for a container: whether shutdown.txt exists)
NewAgent(flag) ==
    [cloud |-> flag, c |-> "nil", pc |-> "new", ctx |-> "live", ticks |-> 0,
     last |-> "none", preempted |-> FALSE]

ExchOff == exch = NewExchange(<<>>, "idle")
ProvOff == prov = NewProvider("gcp", "RUNNING")
RoutingOff == routing = NewRouting(<<>>)
SingleOff == single = NewSingle
AgentOff == agent = NewAgent("docker")

ExtOff ==
    /\ ExchOff
    /\ ProvOff
    /\ RoutingOff
    /\ SingleOff
    /\ AgentOff

Init ==
    /\ poll = NewPoller(StatusUnknown)
    /\ bus = NewBus
    /\ cfg = NewLoad(Empty, Empty, NoFile)
    /\ ExtOff
    /\ whitelist \in [Backends -> Whitelists]
    /\ cloud \in [Backends -> ProviderStatus]
    /\ connections = [b \in Backends |-> 0]
    /\ emptySince = [b \in Backends |-> NoTime]
    /\ lastMinecraftStatus = [b \in Backends |-> NoVersion]
    /\ conn = [c \in Conns |-> NewConn]
    /\ w = IdleWatcher
    /\ proxy = NewProxy
    /\ lastZero = [b \in Backends |-> 0]
    /\ lastStop = [b \in Backends |-> NoTime]

\* atomic.Uint64.Add
UintAdd(x, d) == (x + d) % UintModulus

\* Proxy.servers: the hostnames the proxy has a Server for
Servers == DOMAIN connections

\* ------------------------------------------------------------- environment
\* an instant, one clock unit later
Older(t) == IF t = NoTime \/ t = MaxAge THEN t ELSE t + 1

\* time passes: every instant held anywhere is one clock unit further back
Tick ==
    /\ emptySince' = [b \in Servers |-> Older(emptySince[b])]
    /\ lastZero' = [b \in Servers |-> Older(lastZero[b])]
    /\ lastStop' = [b \in Servers |-> Older(lastStop[b])]
    /\ UNCHANGED <<aux, proxy, whitelist, cloud, connections, lastMinecraftStatus, conn, w>>

\* the instance finishes a transition the provider was asked for
CloudProgress(b) ==
    /\ \/ cloud[b] = StatusStarting /\ cloud' = [cloud EXCEPT ![b] = StatusRunning]
       \/ cloud[b] = StatusStopping /\ cloud' = [cloud EXCEPT ![b] = StatusStopped]
    /\ UNCHANGED <<aux, proxy, whitelist, connections, emptySince, lastMinecraftStatus,
                   conn, w, hist>>

\* a preemptible instance is taken away while it runs
CloudPreempt(b) ==
    /\ cloud[b] = StatusRunning
    /\ cloud' = [cloud EXCEPT ![b] = StatusStopped]
    /\ lastStop' = [lastStop EXCEPT ![b] = NoTime]
    /\ UNCHANGED <<aux, proxy, whitelist, connections, emptySince, lastMinecraftStatus,
                   conn, w, lastZero>>


\* ---------------------------------------------------- provider (gcp.Client)
\* Client.Start: refuses with ErrNotStopped unless the instance is stopped;
\* the Start RPC itself may fail.  The resulting instance state.
ProviderStartResult(st, rpcOk) ==
    IF st = StatusStopped /\ rpcOk THEN StatusStarting ELSE st

\* Client.Start returned nil
ProviderStartOk(st, rpcOk) == st = StatusStopped /\ rpcOk

\* what Client.Start returned: nil, ErrNotStopped, or the error of a failed RPC
ProviderStartErr(st, rpcOk) ==
    IF ~rpcOk THEN "rpc"
    ELSE IF st # StatusStopped THEN "ErrNotStopped" ELSE "nil"

\* Client.Stop: issues the Stop RPC whatever the state; a stopped or stopping
\* instance stays as it is.
ProviderStopResult(st, rpcOk) ==
    IF rpcOk /\ st \notin {StatusStopped, StatusStopping} THEN StatusStopping ELSE st

\* what a Status RPC can return for an instance: its state, or an error
StatusResults(b) == {cloud[b], "err"}

\* ------------------------------------------------ Proxy.handleConnection
Set(c, r) == conn' = [conn EXCEPT ![c] = r]

\* Connection.isWhitelisted
isWhitelisted(list, name) == name \in list

\* the whitelist plugin of checkState rejects the player
Rejected(list, name) == list # {} /\ ~isWhitelisted(list, name)

\* Proxy.Start: minecraft.ListenMC; on success p.Listener is set and the
\* watcher and accept goroutines are started
Listen ==
    /\ proxy.start = "new"
    /\ \E ok \in BOOLEAN :
          proxy' = IF ok THEN [proxy EXCEPT !.listener = "open", !.start = "running"]
                         ELSE [proxy EXCEPT !.start = "err"]
    /\ UNCHANGED <<aux, whitelist, shared, conn, w, hist>>

\* the accept goroutine is in p.accept(), holding nothing it has yet to send
Accepting ==
    /\ proxy.listener # "nil"
    /\ ~proxy.zero /\ ~proxy.accErr
    /\ \A c \in Conns : conn[c].pc # "accepted"

\* Proxy.Start is in its select, not inside handleConnection
InSelect ==
    /\ proxy.start = "running"
    /\ \A c \in Conns : conn[c].pc # "handshake"

\* the accept goroutine: p.accept() returns the next client's socket, which
\* it sends on the unbuffered connChan
Accept(c) ==
    /\ conn[c].pc = "new"
    /\ IF c = 1 THEN TRUE ELSE conn[c - 1].pc # "new"
    /\ Accepting
    /\ proxy.listener = "open"
    /\ Set(c, [conn[c] EXCEPT !.pc = "accepted"])
    /\ UNCHANGED <<aux, proxy, whitelist, shared, w, hist>>

\* Proxy.Start's select receives the socket from connChan and calls
\* handleConnection, which starts reading the handshake; the accept goroutine
\* goes on to its ctx.Err() test
Receive(c) ==
    /\ conn[c].pc = "accepted"
    /\ InSelect
    /\ Set(c, [conn[c] EXCEPT !.pc = "handshake"])
    /\ proxy' = [proxy EXCEPT !.accErr = proxy.ctx]
    /\ UNCHANGED <<aux, whitelist, shared, w, hist>>

\* handleConnection, called by Proxy.Start's loop, once the client's handshake
\* has come in (or the client is gone): it resolves the server and spawns the
\* connection goroutine.  An unknown server is sent a Disconnect, and
\* handleConnection returns.
HandleConnection(c) ==
    /\ conn[c].pc = "handshake"
    /\ proxy.start = "running"
    /\ \E hs \in {"ok", "eof", "malformed"}, addr \in Servers \cup {UnknownHost},
          ns \in {ClientStateCheck, ClientStatePlayerLogin, 3} :
          Set(c, IF hs # "ok"
                    THEN [conn[c] EXCEPT !.pc = "returned"]
                 ELSE IF addr \notin Servers
                    THEN [conn[c] EXCEPT !.pc = "returned",
                                         !.sent = <<MsgUnknownServer>>]
                 ELSE [conn[c] EXCEPT !.pc = "proxy", !.srv = addr,
                                      !.nextState = ns])
    /\ UNCHANGED <<aux, proxy, whitelist, shared, w, hist>>

\* Connection.Proxy up to the switch of checkState: the handshake is at hand
\* (or reading it failed) and the cloud status is fetched.
CheckState(c) ==
    /\ conn[c].pc = "proxy"
    /\ \E hsOk \in BOOLEAN, st \in StatusResults(conn[c].srv) :
          Set(c, IF ~hsOk
                    THEN [conn[c] EXCEPT !.pc = "close"]
                 ELSE IF st = "err"
                    THEN [conn[c] EXCEPT !.pc = "close", !.status = st]
                 ELSE [conn[c] EXCEPT
                         !.status = st,
                         !.pc = CASE conn[c].nextState = ClientStateCheck -> "status"
                                  [] conn[c].nextState = ClientStatePlayerLogin -> "login"
                                  [] OTHER -> "close"])
    /\ UNCHANGED <<aux, proxy, whitelist, shared, w, hist>>

\* what GetMinecraftStatus returns for a reachable server that reports
\* version v (NoVersion: a reply without a version object)
LiveStatus(v) ==
    [version |-> v, players |-> [max |-> 20, online |-> 1],
     text |-> <<"A Minecraft Server">>]

\* a variant that never uses the cached version
FabricatedStatusNoCache(cached, status) ==
    [version |-> UnknownVersion,
     players |-> [max |-> 0, online |-> 0],
     text |-> <<"Server status: ", status>>]

\* the status Connection.status builds when it has no live one: the version
\* of the cached status if there is one, no players, the cloud status as text
FabricatedStatus(cached, status) ==
    [version |-> IF cached # NoVersion THEN cached ELSE UnknownVersion,
     players |-> [max |-> 0, online |-> 0],
     text |-> <<"Server status: ", status>>]

\* the local `status` of Connection.status after the ping: a failed ping
\* turns RUNNING into UNKNOWN
StatusAfterPing(status, ping) ==
    IF status = StatusRunning /\ ping = "err" THEN StatusUnknown ELSE status

\* a variant that stores every live status, with or without a version
CacheAfterPingAnyLive(cached, ping, v) ==
    IF ping = "ok" THEN v ELSE IF ping = "noversion" THEN NoVersion ELSE cached

\* the cached version after the ping: lastMinecraftStatus.Store(mcStatus) is
\* reached only with a live status whose Version is not nil
CacheAfterPing(cached, ping, v) == IF ping = "ok" THEN v ELSE cached

\* Connection.status: a live ping when the cloud says RUNNING, else (or when
\* the ping fails) a fabricated status; then Client.SendStatus.
Status(c) ==
    /\ conn[c].pc = "status"
    /\ LET b == conn[c].srv IN
       \E ping \in IF conn[c].status = StatusRunning
                      THEN {"err", "noversion", "ok"} ELSE {"none"},
          v \in LiveVersions :
          LET live == ping \in {"noversion", "ok"}
              mc   == IF live
                         THEN LiveStatus(IF ping = "ok" THEN v ELSE NoVersion)
                         ELSE FabricatedStatus(lastMinecraftStatus[b],
                                               StatusAfterPing(conn[c].status, ping))
          IN  /\ lastMinecraftStatus' =
                    [lastMinecraftStatus EXCEPT ![b] = CacheAfterPing(@, ping, v)]
              /\ Set(c, [conn[c] EXCEPT !.pc = "close", !.ping = ping,
                                        !.mcStatus = mc,
                                        !.sent = Append(@, MsgStatus)])
    /\ UNCHANGED <<aux, proxy, whitelist, cloud, connections, emptySince, w, hist>>

\* the packets as captured from the client: Handshake.Packet, and the
\* original packet ReadLoginStart returns next to the parsed LoginStart
HandshakePacket(r) == <<"handshake", r.srv, r.nextState>>
LoginPacket(r)     == <<"login", r.player>>

\* a variant that replays the LoginStart packet first
ReplayPacketsSwapped(r) == <<LoginPacket(r), HandshakePacket(r)>>

\* append([]*pk.Packet{originalHandshake}, replayPackets...)
ReplayPackets(r) == <<HandshakePacket(r), LoginPacket(r)>>

\* Connection.Proxy after checkState returned the LoginStart packet: it dials
\* the backend and writes the packets to replay in order, returning at the
\* first write that fails; piping starts when both were written
DialAndReplay(r, res) ==
    CASE res = "dialfail"   -> [r EXCEPT !.pc = "close"]
      [] res = "write0fail" -> [r EXCEPT !.pc = "close", !.dialed = TRUE]
      [] res = "write1fail" -> [r EXCEPT !.pc = "close", !.dialed = TRUE,
                                         !.replay = SubSeq(ReplayPackets(r), 1, 1)]
      [] OTHER              -> [r EXCEPT !.pc = "piping", !.dialed = TRUE,
                                         !.replay = ReplayPackets(r)]

\* checkState after the OnLogin hook: the whitelist plugin writes a Disconnect
\* to a rejected player and returns only if that write failed; then a server
\* that is not RUNNING is started, and a RUNNING one is dialled
AfterOnLogin(r, list, writeOk, res) ==
    LET rej == Rejected(list, r.player)
        r1  == [r EXCEPT !.sent = IF rej /\ writeOk
                                     THEN Append(@, MsgNotWhitelisted) ELSE @]
    IN  IF rej /\ ~writeOk THEN [r1 EXCEPT !.pc = "close"]
        ELSE IF r.status # StatusRunning THEN [r1 EXCEPT !.pc = "start"]
        ELSE DialAndReplay(r1, res)

\* checkState reads LoginStart and calls the OnLogin hook right away, before
\* the whitelist plugin and the status check; the hook sets madeItToLogin and
\* does emptySince.Store(nil) and connections.Add(1). Then the rest of
\* checkState and of Connection.Proxy up to the next access to the provider.
OnLogin(c) ==
    /\ conn[c].pc = "login"
    /\ LET b == conn[c].srv IN
       \E readOk \in BOOLEAN, name \in Players, writeOk \in BOOLEAN,
          res \in {"dialfail", "write0fail", "write1fail", "ok"} :
          IF readOk
             THEN /\ emptySince' = [emptySince EXCEPT ![b] = NoTime]
                  /\ connections' = [connections EXCEPT ![b] = UintAdd(@, 1)]
                  /\ lastZero' = [lastZero EXCEPT ![b] = NoTime]
                  /\ lastStop' = [lastStop EXCEPT ![b] = NoTime]
                  /\ Set(c, AfterOnLogin([conn[c] EXCEPT !.player = name,
                                                         !.madeItToLogin = TRUE,
                                                         !.counted = TRUE],
                                         whitelist[b], writeOk, res))
             ELSE /\ Set(c, [conn[c] EXCEPT !.pc = "close"])
                  /\ UNCHANGED <<emptySince, connections, hist>>
    /\ UNCHANGED <<aux, proxy, whitelist, cloud, lastMinecraftStatus, w>>

\* a variant that starts whatever the status
StartNeedsRPCAlways(st) == TRUE

\* Server.Start reads the cloud status; it is a no-op for a running server
StartNeedsRPC(st) == st # StatusRunning

\* Server.Start up to the provider call, and the Disconnect that follows a
\* Start that returned nil without one
ServerStart(c) ==
    /\ conn[c].pc = "start"
    /\ \E st \in StatusResults(conn[c].srv) :
          Set(c, IF st = "err"
                    THEN [conn[c] EXCEPT !.pc = "close", !.startStatus = st]
                 ELSE IF StartNeedsRPC(st)
                    THEN [conn[c] EXCEPT !.pc = "startrpc", !.startStatus = st]
                 ELSE [conn[c] EXCEPT !.pc = "close", !.startStatus = st,
                                      !.sent = Append(@, MsgBeingStarted)])
    /\ UNCHANGED <<aux, proxy, whitelist, shared, w, hist>>

\* Server.Start calls cloud.Start(ctx, s.instanceID); on nil the client is
\* sent the Disconnect, on an error checkState returns it
ProviderStart(c) ==
    /\ conn[c].pc = "startrpc"
    /\ \E rpcOk \in BOOLEAN :
          LET b == conn[c].srv IN
          /\ cloud' = [cloud EXCEPT ![b] = ProviderStartResult(cloud[b], rpcOk)]
          /\ Set(c, [conn[c] EXCEPT
                       !.pc = "close",
                       !.starts = @ + 1,
                       !.startErr = ProviderStartErr(cloud[b], rpcOk),
                       !.sent = IF ProviderStartOk(cloud[b], rpcOk)
                                   THEN Append(@, MsgBeingStarted) ELSE @])
    /\ UNCHANGED <<aux, proxy, whitelist, connections, emptySince, lastMinecraftStatus, w,
                   hist>>

\* bidipipe.Pipe returns: one half closed or failed
PipeEnd(c) ==
    /\ conn[c].pc = "piping"
    /\ Set(c, [conn[c] EXCEPT !.pc = "close"])
    /\ UNCHANGED <<aux, proxy, whitelist, shared, w, hist>>

\* a variant that decrements for every connection
OnCloseDeltaAlways(madeItToLogin) == UintModulus - 1

\* the OnClose hook: what it adds to connections, connections.Add(^uint64(0))
\* if the connection made it to login
OnCloseDelta(madeItToLogin) == IF madeItToLogin THEN UintModulus - 1 ELSE 0

\* a connection whose goroutine has ended: its locals are gone, except
\* madeItToLogin, which the OnClose hook has just read
ClosedConn(r) == [NewConn EXCEPT !.pc = "closed", !.closes = r.closes + 1,
                                 !.madeItToLogin = r.madeItToLogin]

\* the goroutine's deferred conn.Close(): the OnClose hook, which leaves
\* emptySince alone, then the socket
Close(c) ==
    /\ conn[c].pc = "close"
    /\ LET b == conn[c].srv
           n == UintAdd(connections[b], OnCloseDelta(conn[c].madeItToLogin))
       IN  /\ connections' = [connections EXCEPT ![b] = n]
           /\ lastZero' = [lastZero EXCEPT ![b] =
                             IF n = 0 /\ connections[b] # 0 THEN 0 ELSE @]
    /\ Set(c, ClosedConn(conn[c]))
    /\ UNCHANGED <<aux, proxy, whitelist, cloud, emptySince, lastMinecraftStatus, w, lastStop>>

\* ------------------------------------------------------------ Proxy.watcher
\* the locals of one loop iteration are dropped when the loop goes on
NextServer == [w EXCEPT !.pc = "scan", !.cur = NoServer, !.ptr = NoTime,
                        !.status = NoStatus, !.stopStatus = NoStatus, !.stops = 0]

\* the 15 s sleep is over: range over p.servers
WatcherWake ==
    /\ w.pc = "sleep"
    /\ proxy.listener # "nil"
    /\ w' = [w EXCEPT !.pc = "scan", !.todo = Servers]
    /\ UNCHANGED <<aux, proxy, whitelist, shared, conn, hist>>

\* the watcher skips a server whose connections counter is not 0
WatcherSkips(n) == n # 0

\* the next server of the range (Go ranges over a map in any order) and the
\* connections.Load() that decides whether the server is looked at
WatcherScan ==
    /\ w.pc = "scan"
    /\ \/ /\ w.todo = {}
          /\ w' = [w EXCEPT !.pc = "sleep", !.cur = NoServer, !.status = NoStatus]
       \/ \E b \in w.todo :
             w' = [w EXCEPT !.todo = @ \ {b},
                            !.status = NoStatus,
                            !.cur = IF WatcherSkips(connections[b]) THEN NoServer ELSE b,
                            !.pc = IF WatcherSkips(connections[b])
                                      THEN "scan" ELSE "getstatus"]
    /\ UNCHANGED <<aux, proxy, whitelist, shared, conn, hist>>

\* a variant in which a failed GetStatus ends the range over the servers
StatusFailedReturn(x) ==
    [NextServer EXCEPT !.cur = x.cur, !.status = "err", !.todo = {}]

\* server.GetStatus failed: the error is logged and the loop goes on with
\* the next server (`continue`)
StatusFailed(x) == [NextServer EXCEPT !.cur = x.cur, !.status = "err"]

\* server.GetStatus: only a server reported RUNNING is looked at further
WatcherGetStatus ==
    /\ w.pc = "getstatus"
    /\ \E st \in StatusResults(w.cur) :
          w' = IF st = "err" THEN StatusFailed(w)
               ELSE IF st = StatusRunning
                  THEN [w EXCEPT !.pc = "check", !.status = st]
                  ELSE NextServer
    /\ UNCHANGED <<aux, proxy, whitelist, shared, conn, hist>>

\* shouldShutdown := time.Since(emptySince) > server.config.ShutdownAfter
shouldShutdown(since) == since > ShutdownAfter

\* emptySincePtr := emptySince.Load(); a nil pointer is replaced by
\* time.Now(), which is stored at once; then the shutdown test on the time
\* elapsed since that instant (kept in w.ptr)
WatcherCheck ==
    /\ w.pc = "check"
    /\ LET since == IF emptySince[w.cur] = NoTime THEN 0 ELSE emptySince[w.cur] IN
          /\ emptySince' = [emptySince EXCEPT ![w.cur] = since]
          /\ w' = IF shouldShutdown(since)
                     THEN [w EXCEPT !.pc = "stopstatus", !.ptr = since]
                     ELSE NextServer
    /\ UNCHANGED <<aux, proxy, whitelist, cloud, connections, lastMinecraftStatus, conn, hist>>

\* a variant with the test inverted
StopNeedsRPCInverted(st) == st = StatusStopped

\* Server.Stop reads the cloud status; it is a no-op for a stopped server
StopNeedsRPC(st) == st # StatusStopped

\* Server.Stop up to the provider call
WatcherServerStop ==
    /\ w.pc = "stopstatus"
    /\ \E st \in StatusResults(w.cur) :
          w' = [w EXCEPT !.stopStatus = st,
                         !.pc = IF st # "err" /\ StopNeedsRPC(st)
                                   THEN "stoprpc" ELSE "clear"]
    /\ UNCHANGED <<aux, proxy, whitelist, shared, conn, hist>>

\* Server.Stop calls cloud.Stop(ctx, s.instanceID); an error is only logged
WatcherProviderStop ==
    /\ w.pc = "stoprpc"
    /\ \E rpcOk \in BOOLEAN :
          LET st == ProviderStopResult(cloud[w.cur], rpcOk) IN
          /\ cloud' = [cloud EXCEPT ![w.cur] = st]
          /\ lastStop' = [lastStop EXCEPT ![w.cur] =
                            IF st = StatusRunning /\ connections[w.cur] = 0
                               THEN 0 ELSE NoTime]
    /\ w' = [w EXCEPT !.pc = "clear", !.stops = @ + 1]
    /\ UNCHANGED <<aux, proxy, whitelist, connections, emptySince, lastMinecraftStatus, conn,
                   lastZero>>

\* a variant that clears the emptySince of every server
WatcherClearAll ==
    /\ w.pc = "clear"
    /\ emptySince' = [b \in Servers |-> NoTime]
    /\ w' = NextServer
    /\ UNCHANGED <<aux, proxy, whitelist, cloud, connections, lastMinecraftStatus, conn, hist>>

\* emptySince.Store(nil) after Server.Stop, whatever it returned
WatcherClear ==
    /\ w.pc = "clear"
    /\ emptySince' = [emptySince EXCEPT ![w.cur] = NoTime]
    /\ w' = NextServer
    /\ UNCHANGED <<aux, proxy, whitelist, cloud, connections, lastMinecraftStatus, conn, hist>>

\* ---------------------------------------------------------- specification
Next ==
    \/ Tick
    \/ \E b \in Backends : CloudProgress(b)
    \/ \E b \in Backends : CloudPreempt(b)
    \/ Listen
    \/ \E c \in Conns : Accept(c)
    \/ \E c \in Conns : Receive(c)
    \/ \E c \in Conns : HandleConnection(c)
    \/ \E c \in Conns : CheckState(c)
    \/ \E c \in Conns : Status(c)
    \/ \E c \in Conns : OnLogin(c)
    \/ \E c \in Conns : ServerStart(c)
    \/ \E c \in Conns : ProviderStart(c)
    \/ \E c \in Conns : PipeEnd(c)
    \/ \E c \in Conns : Close(c)
    \/ WatcherWake
    \/ WatcherScan
    \/ WatcherGetStatus
    \/ WatcherCheck
    \/ WatcherServerStop
    \/ WatcherProviderStop
    \/ WatcherClear

\* the proxy serving clients, before any shutdown signal
Spec == Init /\ [][Next]_vars

\* ------------------------------------------------------------------ shutdown
\* the process runs: it has neither exited nor died of a panic
Alive == ~proxy.exited /\ proxy.start # "panic"

\* signal.NotifyContext: SIGINT or SIGTERM cancels the lifecycle context
Cancel ==
    /\ ~proxy.ctx
    /\ proxy' = [proxy EXCEPT !.ctx = TRUE]
    /\ UNCHANGED <<aux, whitelist, shared, conn, w, hist>>

\* the watcher's select takes ctx.Done() (or its loop test fails): it returns
\* ctx.Err(), which its goroutine sends on errChan
WatcherExit ==
    /\ w.pc = "sleep"
    /\ proxy.listener # "nil"
    /\ proxy.ctx
    /\ w' = [w EXCEPT !.pc = "senderr"]
    /\ UNCHANGED <<aux, proxy, whitelist, shared, conn, hist>>

\* entrypoint, after <-ctx.Done(): Proxy.Stop.  With a Listener it returns
\* p.Listener.Close() at once; without one it goes on to the drain loop.
ProxyStop ==
    /\ proxy.ctx
    /\ proxy.stop = "none"
    /\ proxy' = IF proxy.listener # "nil"
                   THEN [proxy EXCEPT !.listener = "closed", !.stop = "nil"]
                   ELSE [proxy EXCEPT !.stop = "drain"]
    /\ UNCHANGED <<aux, whitelist, shared, conn, w, hist>>

\* context.WithTimeout(context.Background(), 15*time.Second) expires
Deadline ==
    /\ proxy.stop = "drain"
    /\ ~proxy.deadline
    /\ proxy' = [proxy EXCEPT !.deadline = TRUE]
    /\ UNCHANGED <<aux, whitelist, shared, conn, w, hist>>

\* Proxy.Stop's drain loop: it is done when every server's connections is 0,
\* and gives up with ctx.Err() when the deadline has passed
StopDrain ==
    /\ proxy.stop = "drain"
    /\ \/ /\ \A b \in Backends : connections[b] = 0
          /\ proxy' = [proxy EXCEPT !.stop = "nil"]
       \/ /\ \E b \in Backends : connections[b] # 0
          /\ proxy.deadline
          /\ proxy' = [proxy EXCEPT !.stop = "err"]
    /\ UNCHANGED <<aux, whitelist, shared, conn, w, hist>>

\* p.accept() on the closed Listener: Accept fails with net.ErrClosed, accept
\* returns (mcnet.Conn{}, nil), and the goroutine sends that on connChan
AcceptClosed ==
    /\ Accepting
    /\ proxy.listener = "closed"
    /\ proxy' = [proxy EXCEPT !.zero = TRUE]
    /\ UNCHANGED <<aux, whitelist, shared, conn, w, hist>>

\* p.accept() returns an error (context.Canceled or any other): the goroutine
\* logs it, sends ctx.Err() on errChan if the context is cancelled, and loops
AcceptError ==
    /\ Accepting
    /\ proxy.listener = "open"
    /\ proxy' = [proxy EXCEPT !.accErr = proxy.ctx]
    /\ UNCHANGED <<aux, whitelist, shared, conn, w, hist>>

\* Proxy.Start's select receives the zero mcnet.Conn and calls
\* handleConnection, where rawConn.Socket.RemoteAddr() on the nil Socket
\* panics
ReceiveZero ==
    /\ InSelect
    /\ proxy.zero
    /\ proxy' = [proxy EXCEPT !.zero = FALSE, !.start = "panic"]
    /\ UNCHANGED <<aux, whitelist, shared, conn, w, hist>>

\* Proxy.Start's select receives from errChan and returns that error
ReceiveErr ==
    /\ InSelect
    /\ \/ /\ proxy.accErr
          /\ proxy' = [proxy EXCEPT !.accErr = FALSE, !.start = "err"]
          /\ w' = w
       \/ /\ w.pc = "senderr"
          /\ proxy' = [proxy EXCEPT !.start = "err"]
          /\ w' = [w EXCEPT !.pc = "exited"]
    /\ UNCHANGED <<aux, whitelist, shared, conn, hist>>

\* entrypoint: every Proxy.Stop and every Proxy.Start has returned
\* (wg.Wait()), "Shutdown complete", and main exits
Exit ==
    /\ proxy.stop \in {"nil", "err"}
    /\ proxy.start = "err"
    /\ proxy' = [proxy EXCEPT !.exited = TRUE]
    /\ UNCHANGED <<aux, whitelist, shared, conn, w, hist>>

\* The shutdown sequence lasts seconds (Proxy.Stop's caller gives it 15 s):
\* the clock does not advance, the instances keep their state and the
\* watcher stays in its 15 s sleep until it sees the context cancelled.
NextShutdown ==
    /\ Alive
    /\ \/ Listen
       \/ \E c \in Conns : Accept(c)
       \/ \E c \in Conns : Receive(c)
       \/ \E c \in Conns : HandleConnection(c)
       \/ \E c \in Conns : CheckState(c)
       \/ \E c \in Conns : Status(c)
       \/ \E c \in Conns : OnLogin(c)
       \/ \E c \in Conns : ServerStart(c)
       \/ \E c \in Conns : ProviderStart(c)
       \/ \E c \in Conns : PipeEnd(c)
       \/ \E c \in Conns : Close(c)
       \/ Cancel
       \/ WatcherExit
       \/ ProxyStop
       \/ Deadline
       \/ StopDrain
       \/ AcceptClosed
       \/ AcceptError
       \/ ReceiveZero
       \/ ReceiveErr
       \/ Exit

\* the proxy from start-up to the end of the process
ShutdownSpec == Init /\ [][NextShutdown]_vars

\* ------------------------------------------------------------------ panics
\* the goroutine of connection c is running conn.Proxy(ctx)
InProxy(c) ==
    conn[c].pc \in {"proxy", "status", "login", "start", "startrpc", "piping"}

\* Something called by conn.Proxy panics.  The goroutine has no recover and
\* its `defer conn.Close()` is registered only after conn.Proxy has returned,
\* so nothing runs for the connection, and the Go runtime ends the process.
ConnPanic(c) ==
    /\ InProxy(c)
    /\ Set(c, [conn[c] EXCEPT !.pc = "panic"])
    /\ UNCHANGED <<aux, proxy, whitelist, shared, w, hist>>

\* no goroutine has died of a panic
NoPanic == proxy.start # "panic" /\ \A c \in Conns : conn[c].pc # "panic"

\* serving clients, any of whose goroutines may panic
NextPanic ==
    /\ NoPanic
    /\ \/ Listen
       \/ \E c \in Conns : Accept(c)
       \/ \E c \in Conns : Receive(c)
       \/ \E c \in Conns : HandleConnection(c)
       \/ \E c \in Conns : CheckState(c)
       \/ \E c \in Conns : Status(c)
       \/ \E c \in Conns : OnLogin(c)
       \/ \E c \in Conns : ServerStart(c)
       \/ \E c \in Conns : ProviderStart(c)
       \/ \E c \in Conns : PipeEnd(c)
       \/ \E c \in Conns : Close(c)
       \/ \E c \in Conns : ConnPanic(c)

PanicSpec == Init /\ [][NextPanic]_vars

\* ------------------------------------------- single-server program (main.go)
\* the multi-server proxy, not started
ProxyOff ==
    /\ whitelist = [b \in Backends |-> {}]
    /\ cloud = [b \in Backends |-> StatusStopped]
    /\ connections = [b \in Backends |-> 0]
    /\ emptySince = [b \in Backends |-> NoTime]
    /\ lastMinecraftStatus = [b \in Backends |-> NoVersion]
    /\ conn = [c \in Conns |-> NewConn]
    /\ w = IdleWatcher
    /\ proxy = NewProxy
    /\ lastZero = [b \in Backends |-> 0]
    /\ lastStop = [b \in Backends |-> NoTime]

PollInit ==
    /\ ProxyOff
    /\ bus = NewBus
    /\ cfg = NewLoad(Empty, Empty, NoFile)
    /\ ExtOff
    /\ \E st \in ProviderStatus : poll = NewPoller(st)

\* the instance changes state
InstanceChange ==
    /\ \E st \in ProviderStatus \ {poll.instance} :
          poll' = [poll EXCEPT !.instance = st]
    /\ UNCHANGED <<proxyVars, bus, cfg, ext>>

\* one iteration of the polling goroutine: cloudProvider.Status; on an error
\* the goroutine logs a warning and returns; else cachedStatus is updated and
\* the goroutine sleeps
PollStatus ==
    /\ poll.pc = "poll"
    /\ \E ok \in BOOLEAN :
          poll' = IF ok
                     THEN [poll EXCEPT !.cachedStatus = poll.instance,
                                       !.polls = @ + 1, !.pc = "sleep"]
                     ELSE [poll EXCEPT !.failed = @ + 1, !.pc = "exited"]
    /\ UNCHANGED <<proxyVars, bus, cfg, ext>>

\* time.Sleep(5 * time.Minute) is over
PollSleep ==
    /\ poll.pc = "sleep"
    /\ poll.polls < MaxPolls
    /\ poll' = [poll EXCEPT !.pc = "poll"]
    /\ UNCHANGED <<proxyVars, bus, cfg, ext>>

\* handle, for a login: a server cached as STOPPED is started and, if the
\* Start call returned nil, cached as STARTING
HandleLogin ==
    /\ poll.cachedStatus = StatusStopped
    /\ \E rpcOk \in BOOLEAN :
          poll' = [poll EXCEPT
                     !.instance = ProviderStartResult(@, rpcOk),
                     !.cachedStatus = IF ProviderStartOk(poll.instance, rpcOk)
                                         THEN StatusStarting ELSE @]
    /\ UNCHANGED <<proxyVars, bus, cfg, ext>>

NextPoll == InstanceChange \/ PollStatus \/ PollSleep \/ HandleLogin

PollSpec == PollInit /\ [][NextPoll]_vars

\* ------------------------------------------------ the watcher over two servers
\* a proxy that is configured with two servers
Fleet == {"mc.a", "mc.b"}

\* the proxy of two servers before Start, with nobody connected
WatcherInit ==
    /\ whitelist = [b \in Fleet |-> {}]
    /\ cloud \in [Fleet -> ProviderStatus]
    /\ connections = [b \in Fleet |-> 0]
    /\ emptySince = [b \in Fleet |-> NoTime]
    /\ lastMinecraftStatus = [b \in Fleet |-> NoVersion]
    /\ conn = [c \in Conns |-> NewConn]
    /\ w = IdleWatcher
    /\ proxy = NewProxy
    /\ lastZero = [b \in Fleet |-> 0]
    /\ lastStop = [b \in Fleet |-> NoTime]
    /\ poll = NewPoller(StatusUnknown)
    /\ bus = NewBus
    /\ cfg = NewLoad(Empty, Empty, NoFile)
    /\ ExtOff

\* the watcher's ticks while no client connects
NextWatcher ==
    \/ Tick
    \/ \E b \in Servers : CloudProgress(b)
    \/ \E b \in Servers : CloudPreempt(b)
    \/ Listen
    \/ WatcherWake
    \/ WatcherScan
    \/ WatcherGetStatus
    \/ WatcherCheck
    \/ WatcherServerStop
    \/ WatcherProviderStop
    \/ WatcherClear

WatcherSpec == WatcherInit /\ [][NextWatcher]_vars

\* --------------------------------------------- one client and two servers
\* the first connection of a run
FirstConn == 1

FleetInit ==
    /\ whitelist = [b \in Fleet |-> {}]
    /\ cloud \in [Fleet -> {StatusRunning, StatusStopped}]
    /\ connections = [b \in Fleet |-> 0]
    /\ emptySince = [b \in Fleet |-> NoTime]
    /\ lastMinecraftStatus = [b \in Fleet |-> NoVersion]
    /\ conn = [c \in Conns |-> NewConn]
    /\ w = IdleWatcher
    /\ proxy = NewProxy
    /\ lastZero = [b \in Fleet |-> 0]
    /\ lastStop = [b \in Fleet |-> NoTime]
    /\ poll = NewPoller(StatusUnknown)
    /\ bus = NewBus
    /\ cfg = NewLoad(Empty, Empty, NoFile)
    /\ ExtOff

\* the proxy of two servers serving its first client
NextFleet ==
    \/ Tick
    \/ \E b \in Servers : CloudProgress(b)
    \/ \E b \in Servers : CloudPreempt(b)
    \/ Listen
    \/ Accept(FirstConn)
    \/ Receive(FirstConn)
    \/ HandleConnection(FirstConn)
    \/ CheckState(FirstConn)
    \/ Status(FirstConn)
    \/ OnLogin(FirstConn)
    \/ ServerStart(FirstConn)
    \/ ProviderStart(FirstConn)
    \/ PipeEnd(FirstConn)
    \/ Close(FirstConn)
    \/ WatcherWake
    \/ WatcherScan
    \/ WatcherGetStatus
    \/ WatcherCheck
    \/ WatcherServerStop
    \/ WatcherProviderStop
    \/ WatcherClear

FleetSpec == FleetInit /\ [][NextFleet]_vars

\* ---------------------------------------------------------------- eventbus
\* The handlers that get registered (EventHandler is `any`):
\*   "nofunc"  not a function, or a nil function
\*   "f0"      a function without return values
\*   "f1"      func(any) error
\*   "f2"      func(any) (any, error)
Handlers ==
    {[kind |-> "nofunc", data |-> NoData, err |-> NoErr],
     [kind |-> "f0", data |-> NoData, err |-> NoErr],
     [kind |-> "f1", data |-> NoData, err |-> NoErr],
     [kind |-> "f1", data |-> NoData, err |-> "e1"],
     [kind |-> "f2", data |-> NoData, err |-> NoErr],
     [kind |-> "f2", data |-> "Hello World!", err |-> NoErr],
     [kind |-> "f2", data |-> "Hello World 2!", err |-> NoErr],
     [kind |-> "f2", data |-> "Hello World!", err |-> "e2"]}

\* a variant that puts a new result in front of the earlier ones
AddResultFront(results, d) == <<d>> \o results

\* results = append(results, result)
AddResult(results, d) == Append(results, d)

\* the loop of Instance.Emit from the i-th handler of hs on
RECURSIVE EmitFrom(_, _, _, _)
EmitFrom(hs, i, results, invoked) ==
    IF i > Len(hs)
       THEN [invoked |-> invoked, results |-> results, err |-> NoErr]
    ELSE IF hs[i].kind = "nofunc"
       THEN EmitFrom(hs, i + 1, results, invoked)
    ELSE IF hs[i].kind \in {"f1", "f2"} /\ hs[i].err # NoErr
       THEN [invoked |-> Append(invoked, i), results |-> <<>>, err |-> hs[i].err]
    ELSE IF hs[i].kind = "f2" /\ hs[i].data # NoData
       THEN EmitFrom(hs, i + 1, AddResult(results, hs[i].data), Append(invoked, i))
    ELSE EmitFrom(hs, i + 1, results, Append(invoked, i))

BusInit ==
    /\ ProxyOff
    /\ poll = NewPoller(StatusUnknown)
    /\ cfg = NewLoad(Empty, Empty, NoFile)
    /\ ExtOff
    /\ bus = NewBus

\* the handlers registered in all
Registered ==
    LET ks == Keys
        RECURSIVE Sum(_)
        Sum(S) == IF S = {} THEN 0
                  ELSE LET k == CHOOSE x \in S : TRUE
                       IN  Len(bus.handlers[k]) + Sum(S \ {k})
    IN  Sum(ks)

\* Instance.RegisterHandler
RegisterHandler(k, e) ==
    /\ Registered < MaxHandlers
    /\ bus' = [bus EXCEPT !.handlers[k] = Append(@, e)]
    /\ UNCHANGED <<proxyVars, poll, cfg, ext>>

\* Instance.Emit
Emit(k) ==
    /\ LET res == EmitFrom(bus.handlers[k], 1, <<>>, <<>>) IN
          bus' = [bus EXCEPT !.last = [key |-> k, invoked |-> res.invoked,
                                       results |-> res.results, err |-> res.err],
                             !.n = 1 - @]
    /\ UNCHANGED <<proxyVars, poll, cfg, ext>>

NextBus ==
    \/ \E k \in Keys, e \in Handlers : RegisterHandler(k, e)
    \/ \E k \in Keys : Emit(k)

BusSpec == BusInit /\ [][NextBus]_vars

\* ------------------------------------------------------------------ config
\* The YAML documents at hand, by name, and the ProxyConfig each decodes to:
\* "full" sets every field, "short" leaves the fields with defaults out, and
\* "empty" has no servers.
Documents ==
    [full  |-> [servers |-> <<[name |-> "a", listenAddress |-> "0.0.0.0:25570",
                               shutdownAfter |-> 5, gcp |-> TRUE, docker |-> FALSE,
                               hostname |-> "10.0.0.2", port |-> 25566]>>],
     short |-> [servers |-> <<[name |-> "b", listenAddress |-> "",
                               shutdownAfter |-> 0, gcp |-> FALSE, docker |-> TRUE,
                               hostname |-> "10.0.0.3", port |-> 0]>>],
     empty |-> [servers |-> <<>>]]

\* A text is a sequence: the YAML text of document d is <<"yaml", d>>, and
\* the base64 encoding of a text puts "b64" in front of it.
Yaml(d) == <<"yaml", d>>
B64(t)  == <<"b64">> \o t

\* what reading from base64.NewDecoder yields: the decoded text, nothing for
\* an empty input, and a read error for an input that is not base64
Base64Decode(t) ==
    IF t = Empty THEN Empty
    ELSE IF Head(t) = "b64" THEN Tail(t)
    ELSE <<"corrupt">>

\* yaml.NewDecoder(reader).Decode(&conf) succeeds
YamlOk(t) == Len(t) = 2 /\ t[1] = "yaml" /\ t[2] \in DOMAIN Documents

\* the defaults: 15 minutes, and the Minecraft port
DefaultShutdownAfter == 15
DefaultPort == 25565

applyDefaults(conf) ==
    [servers |->
       [i \in DOMAIN conf.servers |->
          LET sc == conf.servers[i] IN
          [sc EXCEPT
             !.listenAddress = IF @ = "" THEN "0.0.0.0:25565" ELSE @,
             !.shutdownAfter = IF @ = 0 THEN DefaultShutdownAfter ELSE @,
             !.port = IF @ = 0 THEN DefaultPort ELSE @]]]

\* validateConfig returns nil
validateConfig(conf) ==
    /\ Len(conf.servers) # 0
    /\ \A i \in DOMAIN conf.servers :
          LET sc == conf.servers[i] IN
          /\ sc.name # ""
          /\ ~(sc.gcp /\ sc.docker)
          /\ sc.gcp \/ sc.docker
          /\ sc.hostname # ""

\* the text LoadProxyConfig decodes: if CONFIG_BASE64 is not empty, the
\* base64 decoding of the variable CONFIG; else the file at the path
ConfigSource(c) ==
    IF c.CONFIG_BASE64 # Empty THEN Base64Decode(c.CONFIG) ELSE c.file

\* LoadProxyConfig: what it returns
LoadProxyConfig(c) ==
    LET t == ConfigSource(c) IN
    IF c.CONFIG_BASE64 = Empty /\ t = NoFile
       THEN [conf |-> [servers |-> <<>>], err |-> "failed to open config file"]
    ELSE IF ~YamlOk(t)
       THEN [conf |-> [servers |-> <<>>], err |-> "failed to unmarshal config file"]
    ELSE IF ~validateConfig(applyDefaults(Documents[t[2]]))
       THEN [conf |-> [servers |-> <<>>], err |-> "failed to validate config"]
    ELSE [conf |-> applyDefaults(Documents[t[2]]), err |-> "nil"]

\* the values of an environment variable, and the files at the --config path
EnvValues ==
    {Empty, B64(Yaml("full")), B64(Yaml("short")), B64(Yaml("empty")), Yaml("full")}
Files == {NoFile, Yaml("full"), Yaml("short"), <<"garbage">>}

ConfigInit ==
    /\ ProxyOff
    /\ poll = NewPoller(StatusUnknown)
    /\ bus = NewBus
    /\ ExtOff
    /\ \E b64 \in EnvValues, config \in EnvValues, file \in Files :
          cfg = NewLoad(b64, config, file)

\* the entrypoint calls config.LoadProxyConfig(confPath)
Load ==
    /\ cfg.err = "none"
    /\ LET res == LoadProxyConfig(cfg) IN
          cfg' = [cfg EXCEPT !.conf = res.conf, !.err = res.err]
    /\ UNCHANGED <<proxyVars, poll, bus, ext>>

NextConfig == Load

ConfigSpec == ConfigInit /\ [][NextConfig]_vars

\* ------------------------------------------- the status exchange (SendStatus)
\* packets are <<id, payload>>
\* what a client may send: a StatusRequest (id 0x00), a Ping (id 0x01) with
\* one of two payloads, or a packet of another id
ClientPackets == {<<0, "">>, <<1, "p1">>, <<1, "p2">>, <<2, "x">>}

\* pk.Marshal(p.ID, pk.String(b)): the status JSON under the request's id
StatusResponse == <<0, "status">>

\* what a client may send before it stops sending: up to MaxPackets packets
ClientInputs ==
    UNION {[1..n -> ClientPackets] : n \in 0..MaxPackets}

\* the switch of SendStatus: what it writes for a packet it read
Answer(p) ==
    CASE p[1] = 0 -> <<StatusResponse>>
      [] p[1] = 1 -> <<p>>
      [] OTHER -> <<>>

ExchangeInit ==
    /\ ProxyOff
    /\ poll = NewPoller(StatusUnknown)
    /\ bus = NewBus
    /\ cfg = NewLoad(Empty, Empty, NoFile)
    /\ ProvOff
    /\ RoutingOff
    /\ SingleOff
    /\ AgentOff
    /\ \E in \in ClientInputs : exch = NewExchange(in, "loop")

\* one iteration of the loop: ReadPacket fails at the end of the client's
\* packets and the loop breaks
SendStatusEOF ==
    /\ exch.pc = "loop"
    /\ exch.in = <<>>
    /\ exch' = [exch EXCEPT !.pc = "returned"]
    /\ UNCHANGED <<proxyVars, poll, bus, cfg, prov, routing, single, agent>>

\* one iteration of the loop: a packet is read and answered; a failed write
\* returns the error, the second iteration ends the loop
SendStatusPacket ==
    /\ exch.pc = "loop"
    /\ exch.in # <<>>
    /\ \E ok \in BOOLEAN :
          LET p == Head(exch.in)
              a == Answer(p)
          IN  /\ (~ok) => a # <<>>
              /\ exch' = [exch EXCEPT
                    !.in = Tail(exch.in),
                    !.reads = exch.reads + 1,
                    !.i = exch.i + 1,
                    !.out = IF ok THEN exch.out \o a ELSE exch.out,
                    !.pc = IF ~ok THEN "failed"
                           ELSE IF exch.i + 1 = 2 THEN "returned" ELSE "loop"]
    /\ UNCHANGED <<proxyVars, poll, bus, cfg, prov, routing, single, agent>>

\* Connection.status has returned what SendStatus returned, Connection.Proxy
\* returns and the connection goroutine closes the connection
ExchangeClose ==
    /\ exch.pc \in {"returned", "failed"}
    /\ exch' = [exch EXCEPT !.pc = "closed"]
    /\ UNCHANGED <<proxyVars, poll, bus, cfg, prov, routing, single, agent>>

NextExchange == SendStatusEOF \/ SendStatusPacket \/ ExchangeClose

ExchangeSpec == ExchangeInit /\ [][NextExchange]_vars

\* ------------------------------------------- provider clients (gcp, docker)
\* the raw states of a Compute Engine instance and of a container
RawStates(kind) ==
    IF kind = "gcp"
       THEN {"PROVISIONING", "STAGING", "RUNNING", "STOPPING", "STOPPED",
             "SUSPENDING", "SUSPENDED", "REPAIRING", "TERMINATED"}
       ELSE {"created", "running", "paused", "restarting", "removing",
             "exited", "dead"}

\* gcp.Client.Status: the switch, then the conversion to STARTING
GcpStatusNoConversion(raw) ==
    CASE raw \in {StatusRunning, StatusStarting, StatusStopping, StatusStopped} -> raw
      [] raw = "TERMINATED" -> StatusStopped
      [] OTHER -> StatusUnknown

GcpStatus(raw) ==
    LET st == CASE raw \in {StatusRunning, StatusStarting, StatusStopping,
                            StatusStopped} -> raw
                [] raw = "TERMINATED" -> StatusStopped
                [] OTHER -> StatusUnknown
    IN  IF raw = "STAGING" \/ raw = "PROVISIONING" THEN StatusStarting ELSE st

\* docker.Client.Status
DockerStatus(raw) ==
    CASE raw \in {"exited", "dead"} -> StatusStopped
      [] raw = "removing" -> StatusStopping
      [] raw = "running" -> StatusRunning
      [] raw = "created" -> StatusStarting
      [] OTHER -> StatusUnknown

\* gcp.Client.Start and docker.Client.Start: is the instance one they start
GcpStartable(raw) == ~(raw # "STOPPED" /\ raw # "TERMINATED")
DockerStartable(raw) == ~(raw # "exited")

ProviderInit ==
    /\ ProxyOff
    /\ poll = NewPoller(StatusUnknown)
    /\ bus = NewBus
    /\ cfg = NewLoad(Empty, Empty, NoFile)
    /\ ExchOff
    /\ RoutingOff
    /\ SingleOff
    /\ AgentOff
    /\ \E kind \in {"gcp", "docker"} :
          \E raw \in RawStates(kind) : prov = NewProvider(kind, raw)

\* Client.Status: the Get/Inspect call fails, or the raw state is normalized
ClientStatus ==
    /\ \E ok \in BOOLEAN :
          prov' = [prov EXCEPT !.status =
                     IF ~ok THEN "err"
                     ELSE IF prov.kind = "gcp" THEN GcpStatus(prov.raw)
                     ELSE DockerStatus(prov.raw)]
    /\ UNCHANGED <<proxyVars, poll, bus, cfg, exch, routing, single, agent>>

\* Client.Start: the Get/Inspect call or the Start call fails, or the
\* instance is not one to start (ErrNotStopped), or it is started
ClientStart ==
    /\ \E ok \in BOOLEAN :
          LET able == IF prov.kind = "gcp" THEN GcpStartable(prov.raw)
                      ELSE DockerStartable(prov.raw)
          IN  prov' = [prov EXCEPT
                  !.start = IF ~ok THEN "rpc"
                            ELSE IF ~able THEN "ErrNotStopped" ELSE "nil",
                  !.raw = IF ok /\ able
                          THEN (IF prov.kind = "gcp" THEN "PROVISIONING"
                                ELSE "running")
                          ELSE prov.raw,
                  !.status = IF ok /\ able THEN "none" ELSE prov.status]
    /\ UNCHANGED <<proxyVars, poll, bus, cfg, exch, routing, single, agent>>

\* the instance changes its state by itself or by someone else's doing;
\* what was learnt about the old state is forgotten
InstanceMoves ==
    /\ \E raw \in RawStates(prov.kind) \ {prov.raw} :
          prov' = NewProvider(prov.kind, raw)
    /\ UNCHANGED <<proxyVars, poll, bus, cfg, exch, routing, single, agent>>

NextProvider == ClientStatus \/ ClientStart \/ InstanceMoves

ProviderSpec == ProviderInit /\ [][NextProvider]_vars

\* ------------------------------------------------- the routing map (NewProxy)
\* The servers a configuration may list.  The field `name` is the server's
\* virtual hostname (ServerConfig.Hostname where the proxy serves several
\* servers), `hostname` the address of its Minecraft server.
ServerLists ==
    UNION {[1..n ->
              [name : {"", "mc.a", "mc.b"}, listenAddress : {""},
               shutdownAfter : {0}, gcp : BOOLEAN, docker : BOOLEAN,
               hostname : {"", "10.0.0.2", "10.0.0.3"}, port : {0}]] :
           n \in 0..MaxServers}

\* NewProxy: servers[server.config.Hostname] = server for each server in
\* turn, so the last server of a hostname is the one the map holds
RoutingMap(s) ==
    [k \in {s[i].name : i \in DOMAIN s} |->
        s[CHOOSE i \in DOMAIN s :
             s[i].name = k /\ \A j \in DOMAIN s : j > i => s[j].name # k]]

RoutingInit ==
    /\ ProxyOff
    /\ poll = NewPoller(StatusUnknown)
    /\ bus = NewBus
    /\ cfg = NewLoad(Empty, Empty, NoFile)
    /\ ExchOff
    /\ ProvOff
    /\ SingleOff
    /\ AgentOff
    /\ \E s \in ServerLists : routing = NewRouting(s)

\* LoadProxyConfig: applyDefaults, then validateConfig
Validate ==
    /\ routing.pc = "loaded"
    /\ LET conf == applyDefaults(routing.conf) IN
          routing' = [routing EXCEPT
                        !.conf = conf,
                        !.pc = IF validateConfig(conf) THEN "valid" ELSE "invalid"]
    /\ UNCHANGED <<proxyVars, poll, bus, cfg, exch, prov, single, agent>>

\* the entrypoint makes a Server of each configured server and hands them
\* to NewProxy
BuildProxy ==
    /\ routing.pc = "valid"
    /\ routing' = [routing EXCEPT !.pc = "built",
                                  !.servers = RoutingMap(routing.conf.servers)]
    /\ UNCHANGED <<proxyVars, poll, bus, cfg, exch, prov, single, agent>>

NextRouting == Validate \/ BuildProxy

RoutingSpec == RoutingInit /\ [][NextRouting]_vars

\* ------------------------------------------------- the proxy of one server
SingleSet(c, pc, counted) ==
    [single EXCEPT !.conn[c] = [pc |-> pc, counted |-> counted]]

SingleInit ==
    /\ ProxyOff
    /\ poll = NewPoller(StatusUnknown)
    /\ bus = NewBus
    /\ cfg = NewLoad(Empty, Empty, NoFile)
    /\ ExchOff
    /\ ProvOff
    /\ RoutingOff
    /\ SingleOff
    /\ AgentOff

\* Proxy.Start's loop: Accept, NewConnection with the two hooks, and the
\* goroutine that runs conn.Proxy and then conn.Close
SingleAccept(c) ==
    /\ single.conn[c].pc = "idle"
    /\ single' = SingleSet(c, "proxy", FALSE)
    /\ UNCHANGED <<proxyVars, poll, bus, cfg, exch, prov, routing, agent>>

\* conn.Proxy up to the login: the handshake fails or asks for the status,
\* and Proxy returns; or it asks for a login
SingleHandshake(c) ==
    /\ single.conn[c].pc = "proxy"
    /\ \E next \in {"eof", "status", "login"} :
          single' = SingleSet(c, IF next = "login" THEN "login" ELSE "close", FALSE)
    /\ UNCHANGED <<proxyVars, poll, bus, cfg, exch, prov, routing, agent>>

\* the login: the LoginStart cannot be read and Proxy returns; or the OnLogin
\* hook runs (emptySince.Store(nil), connections.Add(1)) and the client is
\* either disconnected while the server starts or piped to it
SingleLogin(c) ==
    /\ single.conn[c].pc = "login"
    /\ \/ single' = SingleSet(c, "close", FALSE)
       \/ \E pc \in {"close", "piping"} :
             single' = [SingleSet(c, pc, TRUE) EXCEPT
                          !.emptySince = FALSE,
                          !.connections = UintAdd(single.connections, 1)]
    /\ UNCHANGED <<proxyVars, poll, bus, cfg, exch, prov, routing, agent>>

\* the pipe between client and server ends
SinglePipeEnd(c) ==
    /\ single.conn[c].pc = "piping"
    /\ single' = SingleSet(c, "close", single.conn[c].counted)
    /\ UNCHANGED <<proxyVars, poll, bus, cfg, exch, prov, routing, agent>>

\* the OnClose hook of the proxy of one server: connections.Add(^uint64(0))
SingleOnCloseDelta(counted) == UintModulus - 1

\* the goroutine's conn.Close(): the OnClose hook, then the socket
SingleClose(c) ==
    /\ single.conn[c].pc = "close"
    /\ single' = [SingleSet(c, "closed", single.conn[c].counted) EXCEPT
                    !.connections =
                       UintAdd(single.connections,
                               SingleOnCloseDelta(single.conn[c].counted))]
    /\ UNCHANGED <<proxyVars, poll, bus, cfg, exch, prov, routing, agent>>

\* the watcher's tick: with connections not 0 it does not look at the
\* server; else, if the server is RUNNING, it sets emptySince if that is
\* nil, and stops the server and clears emptySince once ShutdownAfter has
\* passed since
SingleWatcher ==
    /\ \/ /\ single.connections # 0
          /\ single' = [single EXCEPT !.watcher = "skip"]
       \/ /\ single.connections = 0
          /\ \/ single' = [single EXCEPT !.watcher = "look"]
             \/ single' = [single EXCEPT !.watcher = "look", !.emptySince = TRUE]
             \/ /\ single.emptySince
                /\ single' = [single EXCEPT !.watcher = "stop", !.emptySince = FALSE]
    /\ UNCHANGED <<proxyVars, poll, bus, cfg, exch, prov, routing, agent>>

NextSingle ==
    \/ \E c \in Conns : SingleAccept(c)
    \/ \E c \in Conns : SingleHandshake(c)
    \/ \E c \in Conns : SingleLogin(c)
    \/ \E c \in Conns : SinglePipeEnd(c)
    \/ \E c \in Conns : SingleClose(c)
    \/ SingleWatcher

SingleSpec == SingleInit /\ [][NextSingle]_vars

\* -------------------------------------------- the agent's preemption watcher
\* the --cloud flag is any string: the two values the watcher knows, and others
AgentInit ==
    /\ ProxyOff
    /\ poll = NewPoller(StatusUnknown)
    /\ bus = NewBus
    /\ cfg = NewLoad(Empty, Empty, NoFile)
    /\ ExchOff
    /\ ProvOff
    /\ RoutingOff
    /\ SingleOff
    /\ \E flag \in {"gcp", "docker", "aws", ""} : agent = NewAgent(flag)

\* the switch of watcher: does it make a client for this flag
KnownCloud(flag) == flag \in {"gcp", "docker"}

\* watcher(ctx, cancel, cloudProvider): the switch makes a client for a known
\* flag, which may fail; an error is returned; else the goroutine is started
WatcherStart ==
    /\ agent.pc = "new"
    /\ \E ok \in BOOLEAN :
          agent' = IF KnownCloud(agent.cloud) /\ ~ok
                      THEN [agent EXCEPT !.pc = "failed"]
                   ELSE IF KnownCloud(agent.cloud)
                      THEN [agent EXCEPT !.pc = "polling", !.c = agent.cloud]
                   ELSE [agent EXCEPT !.pc = "polling"]
    /\ UNCHANGED <<proxyVars, poll, bus, cfg, exch, prov, routing, single>>

\* what ShouldTerminate can return: for a container whether shutdown.txt
\* exists; for a VM whether it is preempted, or the error of a failed query
ShouldTerminate(c, preempted) ==
    {IF preempted THEN "true" ELSE "false"} \cup (IF c = "gcp" THEN {"err"} ELSE {})

\* the provider preempts the instance (shutdown.txt is created)
Preempt ==
    /\ ~agent.preempted
    /\ agent' = [agent EXCEPT !.preempted = TRUE]
    /\ UNCHANGED <<proxyVars, poll, bus, cfg, exch, prov, routing, single>>

\* a tick: c.ShouldTerminate(ctx).  On a nil provider the call panics; an
\* error is logged and the loop goes on; true calls cancel and returns.
WatcherTick ==
    /\ agent.pc = "polling"
    /\ agent.ticks < MaxPolls
    /\ IF agent.c = "nil"
          THEN agent' = [agent EXCEPT !.pc = "panic", !.ticks = @ + 1]
          ELSE \E res \in ShouldTerminate(agent.c, agent.preempted) :
                  agent' = [agent EXCEPT
                              !.ticks = @ + 1,
                              !.last = res,
                              !.pc = IF res = "true" THEN "returned" ELSE "polling",
                              !.ctx = IF res = "true" /\ agent.ctx = "live"
                                         THEN "cancel" ELSE agent.ctx]
    /\ UNCHANGED <<proxyVars, poll, bus, cfg, exch, prov, routing, single>>

\* the agent's context is cancelled from outside (docker compose has ended,
\* or a signal)
AgentDone ==
    /\ agent.ctx = "live"
    /\ agent.pc \in {"polling", "returned"}
    /\ agent' = [agent EXCEPT !.ctx = "done"]
    /\ UNCHANGED <<proxyVars, poll, bus, cfg, exch, prov, routing, single>>

\* the goroutine's select takes <-ctx.Done() and returns
WatcherDone ==
    /\ agent.pc = "polling"
    /\ agent.ctx # "live"
    /\ agent' = [agent EXCEPT !.pc = "returned"]
    /\ UNCHANGED <<proxyVars, poll, bus, cfg, exch, prov, routing, single>>

NextAgent == WatcherStart \/ Preempt \/ WatcherTick \/ AgentDone \/ WatcherDone

AgentSpec == AgentInit /\ [][NextAgent]_vars

\* ------------------------------------------------------------------ claims
\* how often msg was written to the client
Count(seq, msg) == Cardinality({i \in DOMAIN seq : seq[i] = msg})

\* this step is the watcher's cloud.Stop call for backend b
StopCalled(b) == w.pc = "stoprpc" /\ w.cur = b /\ w'.pc = "clear"

\* the connection read a LoginStart of a player the whitelist rejects
RejectedLogin(c) ==
    /\ conn[c].player # NoPlayer
    /\ Rejected(whitelist[conn[c].srv], conn[c].player)

\* C1: a login by a player who is not on a non-empty whitelist causes no
\* provider Start, no dial and no replay to the backend; the only thing the
\* client is sent is the Disconnect "You are not whitelisted on this server".
C1_RejectedLoginOnlyDisconnects ==
    \A c \in Conns :
        RejectedLogin(c) =>
            /\ conn[c].starts = 0
            /\ ~conn[c].dialed
            /\ conn[c].replay = <<>>
            /\ conn[c].sent \in {<<>>, <<MsgNotWhitelisted>>}
            /\ conn[c].pc = "close"

\* C2: for a connection whose handler has returned, the OnLogin hook has fired
\* iff nextState was 2, the whitelist admitted the player and the cloud status
\* read for the login was RUNNING.
C2_OnLoginIffAdmittedAndRunning ==
    \A c \in Conns :
        conn[c].pc = "close" =>
            (conn[c].madeItToLogin <=>
                /\ conn[c].nextState = ClientStatePlayerLogin
                /\ conn[c].player # NoPlayer
                /\ ~Rejected(whitelist[conn[c].srv], conn[c].player)
                /\ conn[c].status = StatusRunning)

\* C3: OnClose runs exactly once for every connection handed to a handler, and
\* the counter is then back where it was without that connection: at any
\* moment connections counts exactly the connections that were counted by
\* OnLogin and have not been closed.
C3_CounterBalanced ==
    /\ \A b \in Backends :
          connections[b] =
              Cardinality({c \in Conns : conn[c].srv = b /\ conn[c].counted})
    /\ \A c \in Conns :
          /\ conn[c].closes <= 1
          /\ conn[c].pc = "closed" <=> conn[c].closes = 1
          /\ conn[c].pc = "closed" => ~conn[c].counted

\* C3 witness: a logged-in connection was closed while another one is piped
C3_Witness ==
    \E c, d \in Conns :
        /\ conn[c].pc = "closed" /\ conn[c].madeItToLogin
        /\ conn[d].pc = "piping"
        /\ connections[conn[d].srv] = 1

\* C4: in every reachable state a backend with connections > 0 has
\* emptySince = nil.
C4_NoEmptySinceWhileConnected ==
    \A b \in Backends : connections[b] > 0 => emptySince[b] = NoTime

\* C5: the watcher calls Stop only on a backend that has been at zero
\* connections for more than ShutdownAfter right before the call.
C5_StopOnlyAfterIdlePeriod ==
    [][\A b \in Backends :
          StopCalled(b) =>
              /\ connections[b] = 0
              /\ lastZero[b] # NoTime
              /\ lastZero[b] > ShutdownAfter]_vars

\* C6: while the counter is 0, a non-nil emptySince is never an instant before
\* the counter dropped to 0.
C6_EmptySinceNotBeforeDrop ==
    \A b \in Backends :
        (connections[b] = 0 /\ emptySince[b] # NoTime /\ lastZero[b] # NoTime)
            => emptySince[b] <= lastZero[b]

\* this step closes a logged-in connection and brings b's counter to 0
DropsToZero(b) == connections[b] # 0 /\ connections'[b] = 0

\* C7: right after the decrement that brings the counter to 0, emptySince is
\* non-nil and holds the time of the decrement.
C7_EmptySinceSetAtDecrement ==
    [][\A b \in Backends : DropsToZero(b) => emptySince'[b] = 0]_vars

\* C8: within one period of RUNNING with zero connections the watcher calls
\* Stop only after the period has lasted more than ShutdownAfter, and not a
\* second time.
C8_OneStopPerEmptyPeriod ==
    [][\A b \in Backends :
          StopCalled(b) =>
              /\ lastZero[b] # NoTime /\ lastZero[b] > ShutdownAfter
              /\ lastStop[b] = NoTime]_vars

\* C9: on a tick that finds the backend RUNNING (the watcher's read and
\* Server.Stop's read) with emptySince older than ShutdownAfter, cloud.Stop is
\* called exactly once and emptySince is nil after the tick; a tick that does
\* not read RUNNING calls no Stop and leaves emptySince as it is.
C9_TickStopsOnceAndClears ==
    [][/\ \A b \in Backends : StopCalled(b) => w.status = StatusRunning /\ w.stops = 0
       /\ (w.pc = "clear" /\ w'.pc # "clear") =>
             /\ emptySince'[w.cur] = NoTime
             /\ w.stopStatus = StatusRunning => w.stops = 1
       /\ (w.pc = "getstatus" /\ w'.pc # "getstatus" /\ w'.status # StatusRunning) =>
             /\ w'.pc = "scan"
             /\ emptySince' = emptySince]_vars

\* C9 witness: the tick has called Stop once and is about to clear emptySince
C9_Witness ==
    /\ w.pc = "clear" /\ w.stops = 1 /\ w.stopStatus = StatusRunning
    /\ connections[w.cur] = 0
    /\ emptySince[w.cur] # NoTime

\* the login of c met a stopped server: STOPPED was read by checkState and
\* again by Server.Start
StoppedLogin(c) ==
    /\ conn[c].player # NoPlayer
    /\ conn[c].status = StatusStopped
    /\ conn[c].startStatus = StatusStopped

\* C10: a login against a STOPPED backend (STOPPED read by checkState and by
\* Server.Start) ends with provider Start called exactly once, exactly one
\* "Server is being started" Disconnect written, no dial and no replay to the
\* backend, and without entering piping.
C10_StoppedLoginStartsOnce ==
    \A c \in Conns :
        /\ (StoppedLogin(c) /\ conn[c].pc = "close") =>
              /\ conn[c].starts = 1
              /\ Count(conn[c].sent, MsgBeingStarted) = 1
              /\ ~conn[c].dialed /\ conn[c].replay = <<>>
        /\ StoppedLogin(c) => conn[c].pc # "piping"

\* the connection is a login by a player the whitelist admits
AdmittedLogin(c) ==
    /\ conn[c].player # NoPlayer
    /\ ~Rejected(whitelist[conn[c].srv], conn[c].player)

\* C11: a login against a backend whose cloud status is STARTING, STOPPING or
\* UNKNOWN invokes no provider Start and ends with a Disconnect written to the
\* client.
C11_TransitionalLoginNoStart ==
    \A c \in Conns :
        (/\ AdmittedLogin(c)
         /\ conn[c].status \in {StatusStarting, StatusStopping, StatusUnknown}
         /\ conn[c].pc = "close")
        => /\ conn[c].starts = 0
           /\ conn[c].sent # <<>>

\* C12: when provider Start fails with ErrNotStopped, the login that triggered
\* it still gets the "Server is being started" Disconnect.
C12_ErrNotStoppedNotSurfaced ==
    \A c \in Conns :
        (conn[c].pc = "close" /\ conn[c].startErr = "ErrNotStopped")
        => Count(conn[c].sent, MsgBeingStarted) = 1

\* the login of c read STOPPED and no RPC of its Server.Start failed
StartedWithoutRPCFailure(c) ==
    /\ AdmittedLogin(c)
    /\ conn[c].status = StatusStopped
    /\ conn[c].pc = "close"
    /\ conn[c].startStatus # "err"
    /\ conn[c].startErr # "rpc"

\* C13: when two clients log in concurrently against the same STOPPED backend,
\* both get the "Server is being started" Disconnect.
C13_BothConcurrentLoginsDisconnected ==
    \A c, d \in Conns :
        (/\ c # d
         /\ conn[c].srv = conn[d].srv
         /\ StartedWithoutRPCFailure(c)
         /\ StartedWithoutRPCFailure(d))
        => /\ Count(conn[c].sent, MsgBeingStarted) = 1
           /\ Count(conn[d].sent, MsgBeingStarted) = 1

\* a provider call made for the login of c has failed
ProviderCallFailed(c) ==
    \/ conn[c].status = "err"
    \/ conn[c].startStatus = "err"
    \/ conn[c].startErr \in {"rpc", "ErrNotStopped"}

\* C14: a login in which a provider call failed is still sent a Disconnect
\* before the connection is closed.
C14_ProviderFailureStillDisconnects ==
    \A c \in Conns :
        (/\ conn[c].nextState = ClientStatePlayerLogin
         /\ conn[c].pc = "close"
         /\ ProviderCallFailed(c))
        => conn[c].sent # <<>>

\* C15: a handshake for an unknown server gets exactly one "Unknown server"
\* Disconnect, after which the proxy closes the client's socket; no backend's
\* connections or emptySince changes and no provider operation is invoked.
C15_UnknownServerDisconnectedAndClosed ==
    \A c \in Conns :
        (conn[c].pc = "returned" /\ conn[c].sent # <<>>)
        => /\ conn[c].sent = <<MsgUnknownServer>>
           /\ conn[c].closes = 1
           /\ ~conn[c].counted
           /\ conn[c].starts = 0

\* C16: a client whose handshake has not come in yet does not hold up another
\* client: no accepted client waits to be dispatched while Proxy.Start is
\* reading another client's handshake.
C16_SilentClientDelaysNobody ==
    \A c, d \in Conns :
        ~(conn[c].pc = "handshake" /\ conn[d].pc = "accepted")

\* C17: Proxy.Stop never returns nil while some backend still has
\* connections > 0 and the caller's deadline has not passed.
C17_StopWaitsForDrain ==
    [][(proxy.stop # "nil" /\ proxy'.stop = "nil") =>
          \/ \A b \in Backends : connections'[b] = 0
          \/ proxy'.deadline]_vars

\* C18: the accept loop's failure policy: Accept failing on the closed
\* listener makes Proxy.Start return (it does not pass a connection on and does
\* not crash), and Proxy.Start returns an error only for a cancelled context.
C18_AcceptFailurePolicy ==
    /\ proxy.start # "panic"
    /\ ~proxy.zero
    /\ (proxy.start = "err" /\ proxy.listener # "nil") => proxy.ctx

C20_StatusRequestFrame ==
    [][\A c \in Conns :
          (conn[c].nextState = ClientStateCheck /\ conn'[c] # conn[c]) =>
              /\ connections' = connections
              /\ emptySince' = emptySince
              /\ cloud' = cloud
              /\ conn'[c].starts = 0
              /\ ~conn'[c].counted]_vars

\* C20 witness: a status request is about to be closed while a player is
\* connected
C20_Witness ==
    \E c, d \in Conns :
        /\ conn[c].nextState = ClientStateCheck
        /\ conn[c].pc = "close" /\ conn[c].sent = <<MsgStatus>>
        /\ conn[d].pc = "piping"
        /\ connections[conn[d].srv] = 1

\* the status reply of c was fabricated: the backend was not reachable
Unreachable(r) ==
    r.pc = "close" /\ r.nextState = ClientStateCheck /\ r.ping \in {"none", "err"}

\* C21 as stated: the fabricated status has the cached version if one is
\* cached and unknown/754 otherwise, no players, and as text "Server status: "
\* with the status the provider reported for this request.
C21_FabricatedStatusProviderText ==
    [][\A c \in Conns :
          (conn[c].pc = "status" /\ Unreachable(conn'[c])) =>
              conn'[c].mcStatus =
                 [version |-> IF lastMinecraftStatus[conn[c].srv] # NoVersion
                                 THEN lastMinecraftStatus[conn[c].srv]
                                 ELSE UnknownVersion,
                  players |-> [max |-> 0, online |-> 0],
                  text |-> <<"Server status: ", conn[c].status>>]]_vars

\* C21 amended: as above, but the text carries the status the provider
\* reported only when that is not RUNNING; when the provider reported RUNNING
\* and the live ping failed the text is "Server status: UNKNOWN".
C21_FabricatedStatus ==
    [][\A c \in Conns :
          (conn[c].pc = "status" /\ Unreachable(conn'[c])) =>
              conn'[c].mcStatus =
                 [version |-> IF lastMinecraftStatus[conn[c].srv] # NoVersion
                                 THEN lastMinecraftStatus[conn[c].srv]
                                 ELSE UnknownVersion,
                  players |-> [max |-> 0, online |-> 0],
                  text |-> <<"Server status: ",
                             IF conn[c].status = StatusRunning
                                THEN StatusUnknown ELSE conn[c].status>>]]_vars

\* C21 witness: a status reply fabricated after a failed ping, with the
\* version cached from an earlier successful ping
C21_Witness ==
    \E c \in Conns :
        /\ Unreachable(conn[c]) /\ conn[c].ping = "err"
        /\ conn[c].mcStatus.version \in LiveVersions
        /\ conn[c].mcStatus.text = <<"Server status: ", StatusUnknown>>

\* the provider calls made so far by the Server.Start call of connection r:
\* its Status read and its cloud.Start
StartRPCs(r) == (IF r.startStatus # NoStatus THEN 1 ELSE 0) + r.starts

\* the provider calls made so far by the watcher's current Server.Stop call
StopRPCs(x) == (IF x.stopStatus # NoStatus THEN 1 ELSE 0) + x.stops

\* C22 as stated: Server.Start called while the instance is RUNNING makes no
\* provider call at all, and neither does Server.Stop called while it is
\* STOPPED.
C22_NoProviderCallWhenSettled ==
    [][/\ \A c \in Conns :
             (/\ conn[c].pc = "start" /\ conn'[c].pc # "start"
              /\ cloud[conn[c].srv] = StatusRunning)
             => StartRPCs(conn'[c]) = 0
       /\ (/\ w.pc = "stopstatus" /\ w'.pc # "stopstatus"
           /\ cloud[w.cur] = StatusStopped)
          => StopRPCs(w') = 0]_vars

\* C22 amended: Server.Start called while the instance is RUNNING makes no
\* cloud.Start call, Server.Stop called while it is STOPPED makes no
\* cloud.Stop call, and either leaves the instance as it is; the one provider
\* call each makes is its Status read.
C22_NoStartStopWhenSettled ==
    [][/\ \A c \in Conns :
             (/\ conn[c].pc = "start" /\ conn'[c].pc # "start"
              /\ cloud[conn[c].srv] = StatusRunning)
             => /\ conn'[c].pc = "close"
                /\ conn'[c].starts = 0
                /\ StartRPCs(conn'[c]) = 1
                /\ cloud' = cloud
       /\ (/\ w.pc = "stopstatus" /\ w'.pc # "stopstatus"
           /\ cloud[w.cur] = StatusStopped)
          => /\ w'.pc = "clear"
             /\ w'.stops = 0
             /\ StopRPCs(w') = 1
             /\ cloud' = cloud]_vars

\* C22 witness: a Server.Start that found the instance RUNNING and a
\* Server.Stop that found it STOPPED have both returned
C22_Witness ==
    /\ \E c \in Conns :
          /\ conn[c].pc = "close" /\ conn[c].startStatus = StatusRunning
          /\ conn[c].starts = 0
    /\ w.pc = "clear" /\ w.stopStatus = StatusStopped /\ w.stops = 0

\* the connections that are logged in on backend b and whose task is alive
LoggedIn(b) ==
    {c \in Conns : /\ conn[c].srv = b /\ conn[c].madeItToLogin
                   /\ conn[c].pc \notin {"closed", "panic"}}

\* C23: a panic inside a connection's task is contained: the process and its
\* accept loop live on, and OnClose has run for the failed connection, so that
\* connections counts only the connections that are still there.
C23_PanicContained ==
    (\E c \in Conns : conn[c].pc = "panic") =>
        /\ NoPanic
        /\ \A b \in Backends : connections[b] = Cardinality(LoggedIn(b))

\* C24: the status-polling loop keeps polling after a provider Status call
\* has failed: a failed poll does not end the polling goroutine.
C24_PollingSurvivesFailure ==
    poll.failed > 0 => poll.pc \in {"poll", "sleep"}

\* the indices in S, in ascending order
Ascending(n, S) == SelectSeq([i \in 1..n |-> i], LAMBDA i : i \in S)

\* the handlers of hs that are functions, and those that return an error
Callable(hs) == {i \in DOMAIN hs : hs[i].kind # "nofunc"}
Failing(hs)  == {i \in Callable(hs) : hs[i].err # NoErr}
\* the first handler that returns an error, or none
FirstFailing(hs) ==
    IF Failing(hs) = {} THEN Len(hs) + 1
    ELSE CHOOSE i \in Failing(hs) : \A j \in Failing(hs) : i <= j

\* C25: Emit calls the handlers registered for the key in registration order
\* up to and including the first one that returns an error; without an error
\* it returns their non-nil data in that order, and with one it returns that
\* error and no results.
C25_EmitInOrderStopsAtError ==
    [][(bus'.n # bus.n) =>
         LET hs    == bus.handlers[bus'.last.key]
             first == FirstFailing(hs)
             data  == Ascending(Len(hs),
                                {i \in Callable(hs) : hs[i].data # NoData})
         IN  /\ bus'.last.invoked =
                   Ascending(Len(hs), {i \in Callable(hs) : i <= first})
             /\ first <= Len(hs) =>
                   /\ bus'.last.err = hs[first].err
                   /\ bus'.last.results = <<>>
             /\ first > Len(hs) =>
                   /\ bus'.last.err = NoErr
                   /\ bus'.last.results = [j \in DOMAIN data |-> hs[data[j]].data]]_vars

\* C25 witness: an Emit that called two handlers, got an error from the
\* second after data from the first, and left a third one uncalled
C25_Witness ==
    /\ bus.last.key \in Keys
    /\ Len(bus.handlers[bus.last.key]) = 3
    /\ bus.last.invoked = <<1, 2>>
    /\ bus.handlers[bus.last.key][1].data # NoData
    /\ bus.last.err # NoErr

\* CONFIG_BASE64 holds the base64 encoding of a valid YAML configuration
ValidBase64Config ==
    /\ Base64Decode(cfg.CONFIG_BASE64) # cfg.CONFIG_BASE64
    /\ YamlOk(Base64Decode(cfg.CONFIG_BASE64))
    /\ validateConfig(applyDefaults(Documents[Base64Decode(cfg.CONFIG_BASE64)[2]]))

\* C26: when CONFIG_BASE64 holds the base64 encoding of a valid YAML
\* configuration, LoadProxyConfig returns that configuration with the defaults
\* applied, whatever the file at the path and the other variables are.
C26_LoadsConfigBase64 ==
    (ValidBase64Config /\ cfg.err # "none") =>
        /\ cfg.err = "nil"
        /\ cfg.conf = applyDefaults(Documents[Base64Decode(cfg.CONFIG_BASE64)[2]])

\* C27: the watcher calls Server.Stop for a backend, and Server.Stop calls
\* the provider's Stop, only at moments when the backend's connections counter
\* is 0.
C27_NoStopWhileConnected ==
    [][/\ (w.pc = "check" /\ w'.pc = "stopstatus") => connections[w.cur] = 0
       /\ \A b \in Backends : StopCalled(b) => connections[b] = 0]_vars

\* C28: an emptySince that was left standing while connections > 0 is
\* discarded before it can be used: the instant the watcher's shutdown test
\* uses is never one from before the counter last dropped to 0.
C28_StaleEmptySinceNeverUsed ==
    [][(w.pc = "check" /\ w'.pc = "stopstatus") =>
          /\ lastZero[w.cur] # NoTime
          /\ w'.ptr <= lastZero[w.cur]]_vars

\* this step is the login of connection c, and the login ends in a
\* Disconnect: the whitelist rejects the player or the backend is not RUNNING
DisconnectedLoginStep(c) ==
    /\ conn[c].pc = "login"
    /\ conn'[c].player # NoPlayer
    /\ \/ Rejected(whitelist[conn[c].srv], conn'[c].player)
       \/ conn[c].status # StatusRunning

\* C29: emptySince of a backend is cleared only by a step that takes its
\* connections counter from 0 to 1 or by the watcher's shutdown step, and a
\* login that ends in a Disconnect leaves emptySince as it is.
C29_EmptySinceClearedOnlyByAdmission ==
    [][/\ \A b \in Backends :
             (emptySince[b] # NoTime /\ emptySince'[b] = NoTime) =>
                 \/ connections[b] = 0 /\ connections'[b] = 1
                 \/ w.pc = "clear" /\ w.cur = b /\ w'.pc # "clear"
       /\ \A c \in Conns :
             DisconnectedLoginStep(c) => emptySince' = emptySince]_vars

\* C30: when server.GetStatus fails for a backend in a tick, the watcher
\* calls no Stop for it and leaves its connections and emptySince (and the
\* instance) alone; it goes on with the servers still to be scanned in this
\* tick, ends the tick only when none is left, and the next tick ranges over
\* every server again.
C30_StatusErrorSkipsOneServer ==
    [][/\ (w.pc = "getstatus" /\ w'.status = "err") =>
             /\ w'.pc = "scan" /\ w'.todo = w.todo /\ w'.stops = 0
             /\ UNCHANGED <<cloud, connections, emptySince>>
       /\ (w.status = "err" /\ w' # w) =>
             /\ w'.pc \in {"scan", "getstatus", "sleep"}
             /\ w'.pc = "sleep" <=> w.todo = {}
             /\ w'.cur # w.cur
             /\ UNCHANGED <<cloud, connections, emptySince>>
       /\ (w.pc = "sleep" /\ w'.pc = "scan") => w'.todo = Servers]_vars

\* C30 witness: GetStatus has failed for a running server that has been empty
\* for longer than ShutdownAfter, and another server is still to be scanned
C30_Witness ==
    /\ w.status = "err" /\ w.pc = "scan"
    /\ cloud[w.cur] = StatusRunning
    /\ emptySince[w.cur] # NoTime /\ shouldShutdown(emptySince[w.cur])
    /\ w.todo # {}

\* C31: in the status state the proxy reads at most two packets and writes at
\* most one StatusResponse; what it writes after the status is only the echo
\* of a Ping; then the connection is closed.
C31_AtMostOneStatusResponse ==
    /\ exch.reads <= 2
    /\ Count(exch.out, StatusResponse) <= 1
    /\ \A i \in DOMAIN exch.out :
          (\E j \in 1..(i-1) : exch.out[j] = StatusResponse) => exch.out[i][1] = 1

\* C32: a successful provider Status returns one of the five statuses: for a
\* VM, STAGING and PROVISIONING give STARTING, TERMINATED gives STOPPED, the
\* four status names give themselves and any other raw state gives UNKNOWN;
\* for a container, running gives RUNNING, created STARTING, removing
\* STOPPING, exited and dead STOPPED, anything else UNKNOWN.
C32_StatusNormalized ==
    prov.status \notin {"none", "err"} =>
        /\ prov.status \in ProviderStatus
        /\ prov.kind = "gcp" =>
             /\ prov.raw \in {"STAGING", "PROVISIONING"} => prov.status = StatusStarting
             /\ prov.raw = "TERMINATED" => prov.status = StatusStopped
             /\ prov.raw \in {"RUNNING", "STOPPING", "STOPPED"} => prov.status = prov.raw
             /\ prov.raw \in {"SUSPENDING", "SUSPENDED", "REPAIRING"} =>
                    prov.status = StatusUnknown
        /\ prov.kind = "docker" =>
             /\ prov.raw = "running" => prov.status = StatusRunning
             /\ prov.raw = "created" => prov.status = StatusStarting
             /\ prov.raw = "removing" => prov.status = StatusStopping
             /\ prov.raw \in {"exited", "dead"} => prov.status = StatusStopped
             /\ prov.raw \in {"paused", "restarting"} => prov.status = StatusUnknown

\* C32 witness: Status has answered for a VM that is being staged
C32_Witness ==
    prov.kind = "gcp" /\ prov.raw = "STAGING" /\ prov.status = StatusStarting

\* C37: when the container provider's Status has reported STOPPED for an
\* instance, a Start of that unchanged instance does not fail with
\* ErrNotStopped.
C37_StoppedContainerStarts ==
    [][(/\ prov.kind = "docker"
        /\ prov.status = StatusStopped
        /\ prov.start = "none"
        /\ prov'.start # "none") => prov'.start # "ErrNotStopped"]_vars

\* the step is one of a connection of backend b or of the watcher looking at b
Concerns(b) ==
    \/ \E c \in Conns : conn'[c] # conn[c] /\ (conn[c].srv = b \/ conn'[c].srv = b)
    \/ w' # w /\ (w.cur = b \/ w'.cur = b)

\* C33: a step of a connection of one backend, or of the watcher looking at
\* one backend, changes no other backend's connections, emptySince (but for
\* the passing of time) or lastMinecraftStatus; and the provider's Stop is
\* called only for the backend the watcher found RUNNING and whose own
\* emptySince is older than ShutdownAfter.
C33_BackendsIndependent ==
    [][\A b \in Servers :
         /\ (\/ connections'[b] # connections[b]
             \/ lastMinecraftStatus'[b] # lastMinecraftStatus[b]
             \/ emptySince'[b] \notin {emptySince[b], Older(emptySince[b])})
                => Concerns(b)
         /\ (w' # w /\ cloud'[b] # cloud[b]) =>
               /\ w.cur = b
               /\ w.status = StatusRunning
               /\ shouldShutdown(w.ptr)
         /\ (w.pc = "check" /\ w.cur = b /\ w'.pc = "stopstatus") =>
               /\ w'.ptr = emptySince'[b]
               /\ shouldShutdown(emptySince'[b])]_vars

\* C33 witness: a client is logged in to one backend while the watcher has
\* called the provider's Stop for the other one
C33_Witness ==
    /\ conn[FirstConn].pc = "piping" /\ conn[FirstConn].srv = "mc.a"
    /\ connections["mc.a"] = 1
    /\ w.cur = "mc.b" /\ w.pc = "clear" /\ w.stops = 1

\* C34: the routing map NewProxy builds from a validated configuration has
\* exactly one entry per configured server, and every configured server is
\* the entry of its hostname.
C34_EveryServerRouted ==
    routing.pc = "built" =>
        /\ Cardinality(DOMAIN routing.servers) = Len(routing.conf.servers)
        /\ \A i \in DOMAIN routing.conf.servers :
              LET s == routing.conf.servers[i] IN
              s.name \in DOMAIN routing.servers /\ routing.servers[s.name] = s

\* the Disconnect packets the proxy writes
Disconnects == {MsgUnknownServer, MsgNotWhitelisted, MsgBeingStarted}

\* C35: once a Disconnect has been written to a client, nothing more is
\* written to that client (no second Disconnect) and the backend is not
\* dialed for that connection.
C35_DisconnectIsLast ==
    \A c \in Conns :
        (\E i \in DOMAIN conn[c].sent : conn[c].sent[i] \in Disconnects) =>
            /\ Len(conn[c].sent) = 1
            /\ ~conn[c].dialed
            /\ conn[c].pc # "piping"

\* C36: no step of the accept goroutine sends a zero-value connection on the
\* connection channel, and no step of Proxy.Start hands one to
\* handleConnection.
C36_OnlyRealSockets ==
    [][/\ ~(~proxy.zero /\ proxy'.zero)
       /\ ~(proxy.zero /\ ~proxy'.zero)]_vars

C39_SingleCounterBalanced ==
    [][/\ ~(single.connections = 0 /\ single'.connections = UintModulus - 1)
       /\ \A c \in Conns :
            (single.conn[c].pc = "close" /\ single'.conn[c].pc = "closed"
               /\ single'.connections # single.connections)
                  => single.conn[c].counted]_vars

\* C40: for every --cloud flag the agent's watcher has either returned an
\* error at start-up or polls ShouldTerminate on a provider that is not nil;
\* it calls cancel only when ShouldTerminate has just returned true, and does
\* not poll after that.
C40_WatcherPollsRealProvider ==
    /\ agent.pc \in {"polling", "panic"} => agent.c # "nil"
    /\ agent.pc # "panic"
    /\ agent.ctx = "cancel" => agent.last = "true" /\ agent.pc = "returned"

=========================================================================
